---- MODULE Spec2Model ----
(***************************************************************************)
(* Model of the forecast service of weewx-forecast (bin/user/forecast.py): *)
(* the scheduling, persistence and pruning pipeline of class Forecast.     *)
(*                                                                         *)
(* One Forecast instance (one forecast method) is modelled together with   *)
(* the shared forecast table.  time.time() is a float; the clock is        *)
(* counted in ticks of 1/Res second so that int(time.time()) truncates.    *)
(***************************************************************************)
EXTENDS Integers, Sequences, FiniteSets, TLC

(* ------------------------------ bounds --------------------------------- *)
Res == 2            \* clock ticks per second
MaxClock == 4       \* last clock tick considered
MaxRuns == 2        \* accepted triggers (runs of do_forecast) considered
MaxThreads == 2     \* runs of do_forecast in flight at a time
MaxTries == 2       \* largest database_max_tries considered
MaxDumps == 3       \* calls of save_raw_forecast / save_failed_forecast considered
MaxDay == 2         \* last day of the record times given to Zambretti
MaxCols == 3        \* hour columns of a 3-hourly HOUR row considered

Threads == 1..MaxThreads
Intervals == {1}                \* configured interval, seconds
MaxAges == {<<>>, <<0>>, <<1>>} \* max_age: <<>> is None, <<n>> is n seconds
EventOffsets == <<-1, 1>>       \* event_ts - dateTime of the rows of a cohort

(* --------------------------- program constants ------------------------- *)
method_id == "A"                \* self.method_id of the modelled instance
other_id == "B"                 \* another forecast method sharing the table

VARIABLES
    lid,             \* self.lid, a required identifier of the source
    foid,            \* self.foid, a required identifier of the source
    single_thread,   \* self.single_thread
    interval,        \* self.interval
    max_age,         \* self.max_age
    vacuum,          \* self.vacuum
    db_max_tries,    \* self.db_max_tries
    last_ts,         \* self.last_ts
    updating,        \* self.updating
    db,              \* the forecast table, rows in insertion order
    clock,           \* time.time(), in ticks
    pc,              \* position of each run of do_forecast
    records,         \* local 'records' of each run, until it is saved
    ts,              \* argument ts of the run's prune_forecasts call
    exc,             \* exception in flight in each run
    nRuns,           \* number of accepted triggers so far
    lastTrig,        \* history: branch taken by the update_forecast call of this instant
    hist,            \* history of each run in flight
    lastExit,        \* history: how the run that finished at this instant ended
    order,           \* history: the cohorts inserted, in the order of insertion
    last_raw_digest, \* self.last_raw_digest
    last_fail_digest,\* self.last_fail_digest
    files,           \* the diagnostic files written, in order
    nDumps,          \* number of dump calls so far
    lastDump,        \* history: the dump call just made
    last_event_ts,   \* ZambrettiForecast.last_event_ts
    lastZ,           \* history: the Zambretti get_forecast call just made
    pfmText,         \* the point forecast matrix product downloaded, a sequence of lines
    pfmLid,          \* the location id the product is decoded for
    pfmShape,        \* history: the located block the product was composed with
    pfmMatrix,       \* what NWSParseForecast returned or raised
    pfmRecords,      \* what NWSProcessForecast returned
    pfmStage         \* position of the decoding

config == <<lid, foid, single_thread, interval, max_age, vacuum, db_max_tries>>
shared == <<last_ts, updating, db, clock>>
locals == <<pc, records, ts, exc>>
history == <<nRuns, lastTrig, hist, lastExit, order>>
diag == <<last_raw_digest, last_fail_digest, files, nDumps, lastDump>>
\* the state outside the scheduling and persistence pipeline
zam == <<last_event_ts, lastZ>>
pfm == <<pfmText, pfmLid, pfmShape, pfmMatrix, pfmRecords, pfmStage>>
aux == <<diag, zam, pfm>>
\* the state of the scheduling and persistence pipeline
core == <<config, shared, locals, history>>
vars == <<core, aux>>

(* ------------------------------ helpers -------------------------------- *)
Row(m, d, e) == [method |-> m, dateTime |-> d, event_ts |-> e]

RECURSIVE SeqMax(_, _)
SeqMax(s, default) ==
    IF s = <<>> THEN default
    ELSE LET m == SeqMax(Tail(s), default)
         IN IF Head(s) > m THEN Head(s) ELSE m

\* int(time.time())
IntTime(c) == c \div Res

\* rows of method m, as a sequence
RowsOf(d, m) == SelectSeq(d, LAMBDA row : row.method = m)

\* Forecast.get_last_forecast_ts: dateTime of the newest cohort, 0 if none
get_last_forecast_ts(d, m) ==
    LET own == RowsOf(d, m)
    IN IF own = <<>> THEN 0
       ELSE SeqMax([i \in 1..Len(own) |-> own[i].dateTime], own[1].dateTime)

\* the gate of update_forecast: time.time() - self.interval > self.last_ts
DueNonStrict(now, ivl, last) == now - ivl * Res >= last * Res
Due(now, ivl, last) == now - ivl * Res > last * Res

\* the branch update_forecast takes
UpdateBranchNoFlag(single, upd, due) ==
    IF single THEN "inline"
    ELSE IF due THEN "started"
    ELSE "notyet"
UpdateBranch(single, upd, due) ==
    IF single THEN "inline"
    ELSE IF upd THEN "running"
    ELSE IF due THEN "started"
    ELSE "notyet"

\* the records a decoder hands back at time now: one cohort, dateTime = now
Cohort(now) ==
    [i \in 1..Len(EventOffsets) |-> Row(method_id, now, now + EventOffsets[i])]

\* dbm.addRecord(records): the whole list is appended in one transaction
AddRecordUpsert(d, recs) ==
    IF recs = <<>> THEN d
    ELSE [i \in 1..Len(d) |->
             IF d[i].method = recs[1].method
             THEN [d[i] EXCEPT !.dateTime = recs[1].dateTime] ELSE d[i]] \o recs
AddRecord(d, recs) == d \o recs

\* the where clause of prune_forecasts: method = m and dateTime < t
MatchesUpTo(row, m, t) == row.method = m /\ row.dateTime <= t
Matches(row, m, t) == row.method = m /\ row.dateTime < t

\* "delete from archive where method = m and dateTime < t"
DeleteBeforeAnyMethod(d, m, t) == SelectSeq(d, LAMBDA row : ~(row.dateTime < t))
DeleteBefore(d, m, t) == SelectSeq(d, LAMBDA row : ~Matches(row, m, t))

\* exceptions: all kinds raised here derive from Exception
ExcKinds == {"DatabaseError", "Exception", "SaveFailed", "PruneFailed"}
\* the "except Exception" clause of do_forecast
CatchesOnlyDatabaseError(kind) == kind = "DatabaseError"
Catches(kind) == kind \in ExcKinds

\* the "except weedb.DatabaseError" clauses of the retry loops and of vacuum
IsDatabaseError(outcome) == outcome = "DatabaseError"

\* the exception vacuum_database is left with: its handler takes a
\* weedb.DatabaseError and nothing else
VacuumExcUncaught(out) == IF out = "ok" THEN "none" ELSE out
VacuumExc(out) == IF out = "ok" \/ IsDatabaseError(out) THEN "none" ELSE out

\* value of self.updating when do_forecast is left; raised tells whether an
\* exception ended the try block
ReleaseOnlyOnCompletion(cur, raised) == IF raised THEN cur ELSE FALSE
Release(cur, raised) == FALSE

\* range(max_tries) still has an element after n passes of the loop
NoRetryLimit(n, max_tries) == n < max_tries + 1
MoreTries(n, max_tries) == n < max_tries

\* The retry loop shared by save_forecast and prune_forecasts:
\*     for count in range(max_tries):
\*         try: <statement>; break
\*         except weedb.DatabaseError: log; time.sleep(retry_wait)
\*     else: raise Exception('... failed after %d attempts')
\* outs[i] is what the backend does with the i-th attempt of the statement.
\* The result is the sequence of attempts made and the way the loop is left:
\* "ok" (break), "failed" (the else clause), or the exception of an attempt
\* that is not a DatabaseError.
RECURSIVE RetryLoop(_, _, _)
RetryLoop(n, max_tries, outs) ==
    IF ~MoreTries(n, max_tries)
    THEN [tried |-> SubSeq(outs, 1, n), result |-> "failed"]
    ELSE IF outs[n + 1] = "ok"
    THEN [tried |-> SubSeq(outs, 1, n + 1), result |-> "ok"]
    ELSE IF IsDatabaseError(outs[n + 1])
    THEN RetryLoop(n + 1, max_tries, outs)
    ELSE [tried |-> SubSeq(outs, 1, n + 1), result |-> outs[n + 1]]

\* what the backend may do with the successive attempts of one statement
Outcomes == {"ok", "DatabaseError", "Exception"}
Oracles(max_tries) == [1..(max_tries + 1) -> Outcomes]

\* the exception a retry loop leaves its function with
LoopExc(result, failure) ==
    CASE result = "ok" -> "none"
      [] result = "failed" -> failure
      [] OTHER -> result

\* where do_forecast goes after get_forecast: "return" on None and the
\* handler on an exception both lead to the finally clause
AfterGetNoReturn(out) == IF out = "raise" THEN "finally" ELSE "save"
AfterGet(out) == IF out \in {"None", "raise"} THEN "finally" ELSE "save"

\* where do_forecast goes after save_forecast, after self.last_ts is set,
\* and after prune_forecasts
AfterSaveContinues(result) == "stamp"
AfterSave(result) == IF result = "ok" THEN "stamp" ELSE "finally"
AfterStamp(age, vac) ==
    IF age # <<>> THEN "prunecall" ELSE IF vac THEN "vacuum" ELSE "finally"
AfterPrune(result, vac) ==
    IF result # "ok" THEN "finally" ELSE IF vac THEN "vacuum" ELSE "finally"

\* the value do_forecast assigns to self.last_ts
StampKeepsOld(c, old) == old
StampValue(c, old) == IntTime(c)

\* a configured identifier: <<>> is None, <<s>> is the string s, a string
\* being the sequence of its pieces
Identifiers == { <<>>, << <<"INSERT_", "ID_HERE">> >>, << <<"MDZ014">> >> }
startswith(str, prefix) == str # <<>> /\ Head(str) = prefix
\* the test of the constructors: "x is None or x.startswith('INSERT_')"
SpecifiedUnlessNone(id) == ~(id = <<>>)
Specified(id) == ~(id = <<>> \/ startswith(id[1], "INSERT_"))
\* the constructor reached self._bind(): update_forecast is bound to the
\* archive-record event
Bound == Specified(lid) /\ Specified(foid)

\* seconds in a day, and 09:00 as seconds after midnight
Day == 86400
NineOClock == 32400
\* weeutil.weeutil.startOfDay, for a station on UTC
startOfDay(t) == t - (t % Day)
\* the 09:00 slot of ZambrettiForecast.get_forecast
SlotOfSameDay(now) == startOfDay(now) + NineOClock
Slot(now) ==
    LET t == startOfDay(now) + NineOClock
    IN IF now < t THEN t - Day ELSE t
\* the record times considered, and what the archive holds for the slot:
\* data that give a Zambretti code, data that give none, a DatabaseError
Nows == {d * Day + t : d \in 1..MaxDay,
                       t \in {1234, NineOClock - 1, NineOClock,
                              NineOClock + 1234, Day - 1}}
ArchiveStates == {"code", "nocode", "DatabaseError"}
Z_KEY == "Zambretti"
ZRecord(now, t) ==
    [method |-> Z_KEY, dateTime |-> now, issued_ts |-> now, event_ts |-> t]
NoZ == [now |-> 0, archive |-> "none", before |-> 0, result |-> <<>>]

\* diagnostic payloads, and hashlib.md5(fc).hexdigest(): a hash is not
\* injective, two of the payloads considered have the same digest
Payloads == {"pfm1", "pfm2", "pfm3"}
md5(fc) == CASE fc = "pfm1" -> "d1" [] fc = "pfm2" -> "d2" [] fc = "pfm3" -> "d1"
\* the test preceding the write in save_raw_forecast / save_failed_forecast:
\* "if self.last_..._digest == digest: return"
DumpsAlways(last, digest) == TRUE
Dumps(last, digest) == ~(last = digest)
\* the digest kept by a call that went on to save_fc_data: the assignment
\* follows the write, so it is not reached when the write raises.
\* DigestKeptBeforeWrite assigns it first.
DigestKeptBeforeWrite(last, digest, out) == digest
DigestKept(last, digest, out) == IF out = "ok" THEN digest ELSE last
\* save_fc_data: what writing the file does
WriteOutcomes == {"ok", "IOError"}
NoDump == [basename |-> "none", fc |-> "none", wrote |-> FALSE, raised |-> FALSE]

(* ---------------- NWS point forecast matrix: the decoder --------------- *)
\* A string is a sequence of one-character strings.  str.isspace, str.strip
\* and int() for the characters used here; int gives <<n>>, or <<>> where
\* python raises ValueError.
DigitVal ==
    ("0" :> 0) @@ ("1" :> 1) @@ ("2" :> 2) @@ ("3" :> 3) @@ ("4" :> 4) @@
    ("5" :> 5) @@ ("6" :> 6) @@ ("7" :> 7) @@ ("8" :> 8) @@ ("9" :> 9)
isspace(c) == c = " "
RECURSIVE lstrip(_)
lstrip(str) == IF str # <<>> /\ isspace(Head(str)) THEN lstrip(Tail(str)) ELSE str
RECURSIVE rstrip(_)
rstrip(str) ==
    IF str # <<>> /\ isspace(str[Len(str)])
    THEN rstrip(SubSeq(str, 1, Len(str) - 1)) ELSE str
strip(str) == rstrip(lstrip(str))
RECURSIVE Decimal(_)
Decimal(str) ==
    IF str = <<>> THEN 0
    ELSE 10 * Decimal(SubSeq(str, 1, Len(str) - 1)) + DigitVal[str[Len(str)]]
int(str) ==
    LET t == strip(str)
    IN IF t # <<>> /\ \A i \in 1..Len(t) : t[i] \in DOMAIN DigitVal
       THEN <<Decimal(t)>> ELSE <<>>
\* the python slice str[a:b], indices from 0
Slice(str, a, b) == SubSeq(str, a + 1, IF b > Len(str) THEN Len(str) ELSE b)

\* A line of the product, by what the decoder looks at: what it starts with
\* (a location id, "$$", or neither: ""), whether split(' ') gives 7 parts
\* and the time date2ts then makes of them (<<>>: strptime raises
\* ValueError), the words of line[0:14].strip().upper(), and line[14:].
LineOf(head, seven, date, label, body) ==
    [head |-> head, seven |-> seven, date |-> date, label |-> label, body |-> body]
endswith(words, w) == words # <<>> /\ words[Len(words)] = w

NWS_KEY == "NWS"
\* the labels of nws_schema_dict that the products considered use
nws_schema_dict ==
    (<<"HOUR">> :> "hour") @@ (<<"TEMP">> :> "temp") @@ (<<"RH">> :> "humidity") @@
    (<<"MIN/MAX">> :> "tempMinMax") @@ (<<"MAX/MIN">> :> "tempMaxMin")

\* NWSExtractLocation: <<>> is None, <<lines>> the lines of the location.
\* ExtractFromTop takes the lines up to the first "$$" whatever the id.
RECURSIVE ExtractLoop(_, _, _, _)
ExtractLoop(alllines, i, l, lines) ==
    IF i > Len(alllines) THEN lines
    ELSE LET line == alllines[i]
         IN IF line.head = l
            THEN ExtractLoop(alllines, i + 1, l, << <<line>> >>)
            ELSE IF lines # <<>>
            THEN IF line.head = "$$" THEN lines
                 ELSE ExtractLoop(alllines, i + 1, l, << Append(lines[1], line) >>)
            ELSE ExtractLoop(alllines, i + 1, l, lines)
ExtractFromTop(text, l) ==
    IF text = <<>> THEN <<>> ELSE ExtractLoop(text, 1, text[1].head, <<>>)
NWSExtractLocation(text, l) == ExtractLoop(text, 1, l, <<>>)

\* a python dict with string keys
EmptyDict == [k \in {} |-> <<>>]
Put(dict, key, val) ==
    [k \in DOMAIN dict \cup {key} |-> IF k = key THEN val ELSE dict[k]]

\* the loop over the lines of the location (the first loop of NWSParseForecast)
ScanStart == [ts |-> <<>>, mode |-> 0, rows3 |-> EmptyDict, rows6 |-> EmptyDict,
              raised |-> "none"]
ScanLine(st, line) ==
    LET hourly == endswith(line.label, "3HRLY") \/ endswith(line.label, "6HRLY")
        minus == ~hourly /\ endswith(line.label, "-")
        mode == IF endswith(line.label, "3HRLY") THEN 3
                ELSE IF endswith(line.label, "6HRLY") THEN 6 ELSE st.mode
        label == IF hourly THEN <<"HOUR">>
                 ELSE IF minus THEN SubSeq(line.label, 1, Len(line.label) - 1)
                 ELSE line.label
        row == <<IF minus THEN "-" ELSE " ">> \o line.body
        known == label \in DOMAIN nws_schema_dict
    IN [st EXCEPT !.mode = mode,
                  !.rows3 = IF known /\ mode = 3
                            THEN Put(@, nws_schema_dict[label], row) ELSE @,
                  !.rows6 = IF known /\ mode = 6
                            THEN Put(@, nws_schema_dict[label], row) ELSE @]
RECURSIVE ScanLines(_, _, _)
ScanLines(lines, i, st) ==
    IF i > Len(lines) \/ st.raised # "none" THEN st
    ELSE LET line == lines[i]
         IN IF st.ts = <<>> /\ line.seven
            THEN IF line.date = <<>> THEN [st EXCEPT !.raised = "ValueError"]
                 ELSE ScanLines(lines, i + 1, [st EXCEPT !.ts = line.date])
            ELSE IF startswith(line.label, "UTC") THEN ScanLines(lines, i + 1, st)
            ELSE ScanLines(lines, i + 1, ScanLine(st, line))

\* "if lasth is not None and h < lasth: day += 24 * 3600"; lasth is <<>> for
\* None.  CarryUnlessLater adds the day also when the hour repeats.
CarryUnlessLater(day, lasth, h) ==
    IF lasth # <<>> /\ h <= lasth[1] THEN day + 24 * 3600 ELSE day
Carry(day, lasth, h) ==
    IF lasth # <<>> /\ h < lasth[1] THEN day + 24 * 3600 ELSE day

\* the timeline under construction: matrix['ts'], ['hour'], ['duration']
\* and idx2hr3, idx2hr6: the place in the HOUR row of the last character of
\* each hour (the timeline index that indices3, indices6 give for a place is
\* its rank, the 6-hour ones after the 3-hour ones)
Timeline(day_ts) == [day |-> day_ts, lasth |-> <<>>, ts |-> <<>>, hour |-> <<>>,
                     duration |-> <<>>, raised |-> "none",
                     idx2hr3 |-> <<>>, idx2hr6 |-> <<>>]
At3(c, place) == [c EXCEPT !.idx2hr3 = Append(@, place)]
At6(c, place) == [c EXCEPT !.idx2hr6 = Append(@, place)]
Slot3(c, h) ==
    LET day == Carry(c.day, c.lasth, h)
    IN [c EXCEPT !.day = day, !.lasth = <<h>>,
                 !.ts = Append(@, day + h * 3600),
                 !.hour = Append(@, h),
                 !.duration = Append(@, 3 * 3600)]
Slot6(c, h) ==
    LET day == Carry(c.day, c.lasth, h)
    IN [c EXCEPT !.day = day, !.lasth = <<h>>,
                 !.ts = Append(@, day + h * 3600),
                 !.hour = Append(@, h),
                 !.duration = Append(@, 6 * 3600)]
SlotAtEnd(c, h) ==
    [c EXCEPT !.ts = Append(@, c.day + h * 3600),
              !.hour = Append(@, h),
              !.duration = Append(@, 3 * 3600)]
\* "for i in range(1, len(rows3['hour']), 3)"
RECURSIVE Loop3(_, _, _)
Loop3(row, i, c) ==
    IF i >= Len(row) \/ c.raised # "none" THEN c
    ELSE LET h == int(Slice(row, i, i + 2))
         IN IF h = <<>> THEN [c EXCEPT !.raised = "ValueError"]
            ELSE Loop3(row, i + 3, At3(Slot3(c, h[1]), i + 1))
\* "for i in range(0, len(rows6['hour']))" and the token left at the end
RECURSIVE Loop6(_, _, _, _)
Loop6(row, i, str, c) ==
    IF c.raised # "none" THEN c
    ELSE IF i >= Len(row)
    THEN IF str = <<>> THEN c
         ELSE IF int(str) = <<>> THEN [c EXCEPT !.raised = "ValueError"]
         ELSE At6(SlotAtEnd(c, int(str)[1]), Len(row) - 1)
    ELSE IF isspace(row[i + 1])
    THEN IF str = <<>> THEN Loop6(row, i + 1, str, c)
         ELSE IF int(str) = <<>> THEN [c EXCEPT !.raised = "ValueError"]
         ELSE Loop6(row, i + 1, <<>>, At6(Slot6(c, int(str)[1]), i - 1))
    ELSE Loop6(row, i + 1, Append(str, row[i + 1]), c)

\* NWSParseForecast: status "matrix" with the matrix, "None", or the
\* exception the function is left with
\* filldata for the rows of the default field width 3 (no product considered
\* has a QPF or SNOW row).  None is <<>>, a value is its characters.
Nulls(nidx) == [i \in 1..nidx |-> <<>>]
\* the slice of a row that ends at a place of the HOUR row, stripped
Chunk(row, place) ==
    strip(Slice(row, IF place - 3 + 1 < 0 THEN 0 ELSE place - 3 + 1, place + 1))
FillRow(array, row, i2h, first) ==
    [i \in 1..Len(array) |->
        IF i - first \in 1..Len(i2h) /\ Chunk(row, i2h[i - first]) # <<>>
        THEN Chunk(row, i2h[i - first]) ELSE array[i]]
\* the loops "for i in range(nidx)" over tempMinMax / tempMaxMin: state 0
\* gives the next value to tempMin, state 1 to tempMax, and the state turns
\* when a value was given.  TurnAtEveryPlace turns it at empty places too.
TurnAtEveryPlace(state, value) == 1 - state
Turn(state, value) == IF value = <<>> THEN state ELSE 1 - state
RECURSIVE TakeInTurn(_, _, _, _)
TakeInTurn(minmax, series, i, state) ==
    IF i > Len(minmax) THEN series
    ELSE TakeInTurn(minmax,
            IF minmax[i] = <<>> THEN series
            ELSE IF state = 0 THEN [series EXCEPT !.tempMin[i] = minmax[i]]
            ELSE [series EXCEPT !.tempMax[i] = minmax[i]],
            i + 1, Turn(state, minmax[i]))
Without(dict, keys) == [k \in DOMAIN dict \ keys |-> dict[k]]
filldata(matrix, nidx, rows, i2h, first) ==
    LET filled == [label \in DOMAIN matrix \cup DOMAIN rows |->
                      IF label \in DOMAIN rows
                      THEN FillRow(IF label \in DOMAIN matrix THEN matrix[label]
                                   ELSE Nulls(nidx), rows[label], i2h, first)
                      ELSE matrix[label]]
        series0 == [tempMin |-> IF "tempMin" \in DOMAIN filled
                                THEN filled["tempMin"] ELSE Nulls(nidx),
                    tempMax |-> IF "tempMax" \in DOMAIN filled
                                THEN filled["tempMax"] ELSE Nulls(nidx)]
        series1 == IF "tempMinMax" \in DOMAIN filled
                   THEN TakeInTurn(filled["tempMinMax"], series0, 1, 0) ELSE series0
        series2 == IF "tempMaxMin" \in DOMAIN filled
                   THEN TakeInTurn(filled["tempMaxMin"], series1, 1, 1) ELSE series1
    IN Put(Put(Without(filled, {"tempMinMax", "tempMaxMin"}),
               "tempMin", series2.tempMin), "tempMax", series2.tempMax)

\* hour holds the hours as the two loops read them; data holds the arrays
\* of the labels as filldata leaves them (data["hour"] is matrix['hour'] as
\* returned: every entry of it is overwritten by the characters of its hour)
NoMatrix(status) == [status |-> status, lid |-> "None", issued_ts |-> 0,
                     ts |-> <<>>, hour |-> <<>>, duration |-> <<>>,
                     data |-> EmptyDict]
NWSParseForecast(text, l) ==
    LET found == NWSExtractLocation(text, l)
    IN IF found = <<>> THEN NoMatrix("None")
       ELSE
       LET lines == found[1]
           st == ScanLines(lines, 1, ScanStart)
       IN IF st.raised # "none" THEN NoMatrix(st.raised)
          ELSE IF st.ts = <<>> THEN NoMatrix("None")
          ELSE IF Len(lines) < 3 THEN NoMatrix("IndexError")
          ELSE IF "hour" \notin DOMAIN st.rows3 THEN NoMatrix("KeyError")
          ELSE
          LET c3 == Loop3(st.rows3["hour"], 1, Timeline(startOfDay(st.ts[1])))
          IN IF c3.raised # "none" THEN NoMatrix(c3.raised)
             ELSE IF "hour" \notin DOMAIN st.rows6 THEN NoMatrix("KeyError")
             ELSE
             LET c6 == Loop6(st.rows6["hour"], 0, <<>>, c3)
             IN IF c6.raised # "none" THEN NoMatrix(c6.raised)
                ELSE
                LET nidx == Len(c6.ts)
                    data3 == filldata(Put(EmptyDict, "hour", Nulls(nidx)), nidx,
                                      st.rows3, c6.idx2hr3, 0)
                    data6 == filldata(data3, nidx, st.rows6, c6.idx2hr6,
                                      Len(c6.idx2hr3))
                IN [status |-> "matrix", lid |-> l, issued_ts |-> st.ts[1],
                    ts |-> c6.ts, hour |-> c6.hour, duration |-> c6.duration,
                    data |-> data6]

\* NWSProcessForecast: one record per entry of matrix['ts']
NWSProcessForecast(matrix, now) ==
    IF matrix.status # "matrix" THEN <<>>
    ELSE [i \in 1..Len(matrix.ts) |->
             [method |-> NWS_KEY, dateTime |-> now, issued_ts |-> matrix.issued_ts,
              event_ts |-> matrix.ts[i], duration |-> matrix.duration[i],
              fields |-> [label \in DOMAIN matrix.data |-> matrix.data[label][i]]]]

\* what NWSForecast.get_forecast gives do_forecast once it has a text
NWSGetForecast(text, l) ==
    LET matrix == NWSParseForecast(text, l)
    IN IF matrix.status = "None" THEN "None"
       ELSE IF matrix.status = "matrix" THEN "records" ELSE "raise"

\* The products considered: a block of another location, "$$", the block of
\* MAZ014 composed as the shape says, "$$", another block.
LocIds == {"MAZ014", "FOOBAR"}
IssueTimes == {Day + 58680}
HourTokens == {<<"0", "2">>, <<"0", "8">>, <<"2", "0">>, <<"M", "M">>}
RECURSIVE Join(_)
Join(tokens) ==
    IF tokens = <<>> THEN <<>>
    ELSE IF Len(tokens) = 1 THEN tokens[1]
    ELSE tokens[1] \o <<" ">> \o Join(Tail(tokens))
Hours3 == UNION {[1..n -> HourTokens] : n \in 1..MaxCols}
Hours6 == {<<h>> : h \in HourTokens} \cup
          {<< <<"0", "2">>, <<"0", "8">> >>, << <<"2", "0">>, <<"0", "2">> >>}
Headers == {"dated", "undated", "misdated", "short", "absent"}
\* the 3-character fields of a data row, and the data rows considered: a
\* label and the fields under the hours of its section, from the first on
Fields == {<<" ", "6", "3">>, <<"1", "0", "0">>, <<"-", "1", "0">>,
           <<" ", "M", "M">>, <<" ", " ", " ">>}
DataLabels == {<<"RH">>, <<"MIN/MAX">>, <<"MAX/MIN">>}
DataRows3 == [label : DataLabels,
              fields : UNION {[1..n -> Fields] : n \in 1..MaxCols}]
DataRows6 == [label : {<<"MIN/MAX">>, <<"MAX/MIN">>},
              fields : {<< <<" ", "4", "3">>, <<" ", "6", "1">> >>,
                        << <<" ", " ", " ">>, <<" ", "6", "1">> >>}]
FullHours3 == [k \in 1..MaxCols |-> IF k = 1 THEN <<"2", "0">> ELSE <<"0", "2">>]
\* the blocks that differ in their structure, without data rows, and the
\* well-formed blocks that differ in their data rows
Shapes ==
    [header : Headers, issued : IssueTimes,
     h3 : {<<>>} \cup {<<h>> : h \in Hours3},
     h6 : {<<>>} \cup {<<h>> : h \in Hours6},
     d3 : {<<>>}, d6 : {<<>>}]
    \cup
    [header : {"dated"}, issued : IssueTimes,
     h3 : {<<FullHours3>>},
     h6 : {<< << <<"0", "2">>, <<"0", "8">> >> >>},
     d3 : {<<>>} \cup {<<r>> : r \in DataRows3},
     d6 : {<<>>} \cup {<<r>> : r \in DataRows6}]
NoShape == [header |-> "absent", issued |-> 0, h3 |-> <<>>, h6 |-> <<>>,
            d3 |-> <<>>, d6 |-> <<>>]
TextLine(head, word) == LineOf(head, FALSE, <<>>, <<word>>, <<>>)
DateLine(date) == LineOf("", TRUE, date, <<"418", "PM", "EDT", "SAT">>, <<>>)
RowLine(label, body) == LineOf("", FALSE, <<>>, label, body)
\* a data row as a line: the first character of its first field is the
\* last of the 14 characters of the label part, the rest is line[14:]
RECURSIVE Concat(_)
Concat(strs) == IF strs = <<>> THEN <<>> ELSE Head(strs) \o Concat(Tail(strs))
DataLine(r) ==
    RowLine(IF isspace(r.fields[1][1]) THEN r.label
            ELSE Append(r.label, r.fields[1][1]),
            Tail(Concat(r.fields)))
RowsOfShape(shape) ==
    (IF shape.h3 = <<>> THEN <<>>
     ELSE <<RowLine(<<"EDT", "3HRLY">>, Join(shape.h3[1])),
            RowLine(<<"UTC", "3HRLY">>, Join(<<<<"1", "2">>>>))>>) \o
    (IF shape.d3 = <<>> THEN <<>> ELSE <<DataLine(shape.d3[1])>>) \o
    (IF shape.h6 = <<>> THEN <<>>
     ELSE <<RowLine(<<"EDT", "6HRLY">>, Join(shape.h6[1])),
            RowLine(<<"UTC", "6HRLY">>, Join(<<<<"0", "6">>>>))>>) \o
    (IF shape.d6 = <<>> THEN <<>> ELSE <<DataLine(shape.d6[1])>>)
BlockOf(id, shape) ==
    CASE shape.header = "absent" -> <<>>
      [] shape.header = "short" ->
            <<TextLine(id, id), DateLine(<<shape.issued>>)>>
            \o RowsOfShape(shape)
      [] OTHER ->
            <<TextLine(id, id), TextLine("", "SUFFOLK"), TextLine("", "BOSTON")>>
            \o (CASE shape.header = "dated" -> <<DateLine(<<shape.issued>>)>>
                  [] shape.header = "misdated" -> <<DateLine(<<>>)>>
                  [] OTHER -> <<>>)
            \o RowsOfShape(shape)
OtherShape(date) ==
    [header |-> "dated", issued |-> date, h3 |-> << << <<"1", "7">> >> >>,
     h6 |-> << << <<"1", "4">> >> >>,
     d3 |-> << [label |-> <<"TEMP">>, fields |-> << <<" ", "6", "9">> >>] >>,
     d6 |-> <<>>]
TextOf(shape) ==
    BlockOf("CTZ002", OtherShape(5 * Day)) \o <<TextLine("$$", "$$")>>
    \o BlockOf("MAZ014", shape)
    \o (IF shape.header = "absent" THEN <<>> ELSE <<TextLine("$$", "$$")>>)
    \o BlockOf("RIZ004", OtherShape(6 * Day)) \o <<TextLine("$$", "$$")>>

InBody == {"get", "save", "stamp", "prunecall", "prune", "vacuum", "finally"}
Idle == \A r \in Threads : pc[r] = "idle"
\* the slot a new run is given: the first one not in use
FreeSlot == CHOOSE r \in Threads : pc[r] = "idle" /\ \A q \in 1..(r - 1) : pc[q] # "idle"

(* ------------------------------- Init ---------------------------------- *)
InitDbs == { <<Row(other_id, 0, 1)>> }
\* history of a run: its number in the order of acceptance, last_ts on entry, whether it took "return" on None, the
\* int(time.time()) at which it set last_ts, the rows its prune deleted, and
\* the attempts of the storage call it has just made
NoHist == [seq |-> 0, last_ts0 |-> 0, returned |-> FALSE, empty |-> FALSE,
           stamped |-> <<>>, pruned |-> 0, attempts |-> <<>>]
\* how a run ended: the exception its handler caught, the exception that
\* left do_forecast, and the history of the run
NoExit == [caught |-> "none", escaped |-> "none", run |-> NoHist]

\* the state Forecast.__init__ leaves, over the store it finds at time now
Constructed(store, now) ==
    /\ lid \in Identifiers
    /\ foid \in Identifiers
    /\ single_thread \in BOOLEAN
    /\ interval \in Intervals
    /\ max_age \in MaxAges
    /\ vacuum \in BOOLEAN
    /\ db_max_tries \in {0, MaxTries}
    /\ db = store
    /\ last_ts = get_last_forecast_ts(db, method_id)
    /\ updating = FALSE
    /\ clock = now
    /\ pc = [r \in Threads |-> "idle"]
    /\ records = [r \in Threads |-> <<>>]
    /\ ts = [r \in Threads |-> 0]
    /\ exc = [r \in Threads |-> "none"]
    /\ nRuns = 0
    /\ lastTrig = "none"
    /\ hist = [r \in Threads |-> NoHist]
    /\ lastExit = NoExit
    /\ order = <<>>
    /\ last_raw_digest = "None"
    /\ last_fail_digest = "None"
    /\ files = <<>>
    /\ nDumps = 0
    /\ lastDump = NoDump
    /\ last_event_ts = 0
    /\ lastZ = NoZ
    /\ pfmText = <<>>
    /\ pfmLid = "None"
    /\ pfmShape = NoShape
    /\ pfmMatrix = NoMatrix("None")
    /\ pfmRecords = <<>>
    /\ pfmStage = "idle"

Init == \E store \in InitDbs : Constructed(store, 0)

(* ------------------------------ actions -------------------------------- *)
\* wall-clock time passes (also the sleeps of delay and retry_wait)
Tick ==
    /\ clock < MaxClock
    /\ clock' = clock + 1
    /\ lastTrig' = "none"
    /\ lastExit' = NoExit
    /\ UNCHANGED <<config, last_ts, updating, db, locals, nRuns, hist, order>>
    /\ UNCHANGED aux

\* Forecast.update_forecast, called by the engine thread on each archive
\* record once it is bound; archive records are at least one clock tick apart.  In
\* single-thread mode the call returns only when the run is over.
UpdateForecast ==
    /\ Bound
    /\ lastTrig = "none"
    /\ single_thread => Idle
    /\ LET b == UpdateBranch(single_thread, updating, Due(clock, interval, last_ts))
       IN /\ lastTrig' = b
          /\ IF b \in {"inline", "started"}
             THEN /\ nRuns < MaxRuns
                  /\ \E r \in Threads : pc[r] = "idle"
                  /\ nRuns' = nRuns + 1
                  /\ pc' = [pc EXCEPT ![FreeSlot] = "start"]
                  /\ hist' = [hist EXCEPT ![FreeSlot].seq = nRuns + 1]
             ELSE UNCHANGED <<nRuns, pc, hist>>
    /\ UNCHANGED <<config, shared, records, ts, exc, lastExit, order>>
    /\ UNCHANGED aux

\* ForecastThread.run, or the inline call, enters do_forecast:
\* self.updating = True
Enter(r) ==
    /\ pc[r] = "start"
    /\ updating' = TRUE
    /\ hist' = [hist EXCEPT ![r].last_ts0 = last_ts]
    /\ pc' = [pc EXCEPT ![r] = "get"]
    /\ UNCHANGED <<config, last_ts, db, clock, records, ts, exc,
                   nRuns, lastTrig, lastExit, order>>
    /\ UNCHANGED aux

\* do_forecast: records = self.get_forecast(event); if records is None: return
\* get_forecast returns None, raises, or returns a (possibly empty) list
GetForecast(r) ==
    /\ pc[r] = "get"
    /\ \E out \in {"None", "raise", "empty", "cohort"} :
          /\ records' = [records EXCEPT ![r] =
                            IF out = "cohort" THEN Cohort(IntTime(clock)) ELSE <<>>]
          /\ exc' = [exc EXCEPT ![r] = IF out = "raise" THEN "Exception" ELSE "none"]
          /\ pc' = [pc EXCEPT ![r] = AfterGet(out)]
          /\ hist' = [hist EXCEPT ![r].returned = (out = "None"),
                                  ![r].empty = (out = "empty")]
    /\ UNCHANGED <<config, shared, ts, nRuns, lastTrig, lastExit, order>>
    /\ UNCHANGED aux

\* do_forecast: Forecast.save_forecast(dbm, records, ...), the whole retry loop
SaveForecast(r) ==
    /\ pc[r] = "save"
    /\ \E outs \in Oracles(db_max_tries) :
          LET loop == RetryLoop(0, db_max_tries, outs)
          IN /\ hist' = [hist EXCEPT ![r].attempts = loop.tried]
             /\ db' = IF loop.result = "ok" THEN AddRecord(db, records[r]) ELSE db
             /\ exc' = [exc EXCEPT ![r] = LoopExc(loop.result, "SaveFailed")]
             /\ pc' = [pc EXCEPT ![r] = AfterSave(loop.result)]
             /\ order' = IF loop.result = "ok" /\ records[r] # <<>>
                         THEN Append(order, [run |-> hist[r].seq,
                                             dateTime |-> records[r][1].dateTime])
                         ELSE order
    /\ records' = [records EXCEPT ![r] = <<>>]
    /\ UNCHANGED <<config, last_ts, updating, clock, ts, nRuns, lastTrig, lastExit>>
    /\ UNCHANGED aux

\* do_forecast: self.last_ts = int(time.time())
Stamp(r) ==
    /\ pc[r] = "stamp"
    /\ last_ts' = StampValue(clock, last_ts)
    /\ hist' = [hist EXCEPT ![r].stamped = <<IntTime(clock)>>, ![r].attempts = <<>>]
    /\ pc' = [pc EXCEPT ![r] = AfterStamp(max_age, vacuum)]
    /\ UNCHANGED <<config, updating, db, clock, records, ts, exc,
                   nRuns, lastTrig, lastExit, order>>
    /\ UNCHANGED aux

\* do_forecast: the call prune_forecasts(dbm, id, self.last_ts - self.max_age);
\* the delete statement is built from ts before the loop
PruneCall(r) ==
    /\ pc[r] = "prunecall"
    /\ ts' = [ts EXCEPT ![r] = last_ts - max_age[1]]
    /\ pc' = [pc EXCEPT ![r] = "prune"]
    /\ UNCHANGED <<config, shared, records, exc, history>>
    /\ UNCHANGED aux

\* Forecast.prune_forecasts: the whole retry loop
PruneForecasts(r) ==
    /\ pc[r] = "prune"
    /\ \E outs \in Oracles(db_max_tries) :
          LET loop == RetryLoop(0, db_max_tries, outs)
          IN /\ db' = IF loop.result = "ok"
                      THEN DeleteBefore(db, method_id, ts[r]) ELSE db
             /\ hist' = [hist EXCEPT ![r].attempts = loop.tried,
                                     ![r].pruned = Len(db) - Len(db')]
             /\ exc' = [exc EXCEPT ![r] = LoopExc(loop.result, "PruneFailed")]
             /\ pc' = [pc EXCEPT ![r] = AfterPrune(loop.result, vacuum)]
    /\ UNCHANGED <<config, last_ts, updating, clock, records, ts,
                   nRuns, lastTrig, lastExit, order>>
    /\ UNCHANGED aux

\* Forecast.vacuum_database: dbm.getSql('vacuum'), a DatabaseError is swallowed
VacuumDatabase(r) ==
    /\ pc[r] = "vacuum"
    /\ \E out \in Outcomes :
          /\ hist' = [hist EXCEPT ![r].attempts = <<out>>, ![r].pruned = 0]
          /\ exc' = [exc EXCEPT ![r] = VacuumExc(out)]
    /\ pc' = [pc EXCEPT ![r] = "finally"]
    /\ UNCHANGED <<config, shared, records, ts, nRuns, lastTrig, lastExit, order>>
    /\ UNCHANGED aux

\* do_forecast: "except Exception" logs what it catches, then
\* "finally: self.updating = False"; an exception not caught goes on to the
\* caller.  The locals of the run go out of scope.
Finally(r) ==
    /\ pc[r] = "finally"
    /\ lastExit' = [caught |-> IF Catches(exc[r]) THEN exc[r] ELSE "none",
                    escaped |-> IF Catches(exc[r]) THEN "none" ELSE exc[r],
                    run |-> hist[r]]
    /\ updating' = Release(updating, exc[r] # "none")
    /\ pc' = [pc EXCEPT ![r] = "idle"]
    /\ records' = [records EXCEPT ![r] = <<>>]
    /\ ts' = [ts EXCEPT ![r] = 0]
    /\ exc' = [exc EXCEPT ![r] = "none"]
    /\ hist' = [hist EXCEPT ![r] = NoHist]
    /\ UNCHANGED <<config, last_ts, db, clock, nRuns, lastTrig, order>>
    /\ UNCHANGED aux

Next ==
    \/ Tick
    \/ UpdateForecast
    \/ \E r \in Threads : Enter(r)
    \/ \E r \in Threads : GetForecast(r)
    \/ \E r \in Threads : SaveForecast(r)
    \/ \E r \in Threads : Stamp(r)
    \/ \E r \in Threads : PruneCall(r)
    \/ \E r \in Threads : PruneForecasts(r)
    \/ \E r \in Threads : VacuumDatabase(r)
    \/ \E r \in Threads : Finally(r)

Spec == Init /\ [][Next]_vars

(* ------------------------------ restart -------------------------------- *)
\* the service is constructed again over the table an earlier process left:
\* at the start of the clock or one second later, over a table with no row,
\* with rows of the other method only, or with cohorts of this method
\* requested no later than the construction
RestartTimes == {0, Res}
RestartDbs(now) ==
    {s \in { <<>>,
             <<Row(other_id, 0, 1)>>,
             <<Row(method_id, 0, 1)>>,
             <<Row(method_id, 0, 1), Row(other_id, 1, 2)>>,
             <<Row(method_id, 0, 1), Row(method_id, 1, 2)>> } :
        \A i \in 1..Len(s) : s[i].dateTime <= IntTime(now)}
RestartConfig == Bound /\ max_age = <<1>> /\ vacuum /\ db_max_tries = MaxTries
InitRestart ==
    \E now \in RestartTimes :
       \E store \in RestartDbs(now) : Constructed(store, now) /\ RestartConfig
SpecRestart == InitRestart /\ [][Next]_vars

(* ----------------------- diagnostic dumps ------------------------------ *)
\* Forecast.save_raw_forecast(fc, basename): the file is written unless the
\* digest of fc is the one kept from the last raw dump; the digest is kept
\* after save_fc_data returned
SaveRawForecast ==
    /\ nDumps < MaxDumps
    /\ nDumps' = nDumps + 1
    /\ \E fc \in Payloads, out \in WriteOutcomes :
          LET digest == md5(fc)
              writes == Dumps(last_raw_digest, digest) /\ out = "ok"
          IN /\ files' = IF writes
                         THEN Append(files, [basename |-> "raw", fc |-> fc])
                         ELSE files
             /\ last_raw_digest' = IF Dumps(last_raw_digest, digest)
                                   THEN DigestKept(last_raw_digest, digest, out)
                                   ELSE last_raw_digest
             /\ lastDump' = [basename |-> "raw", fc |-> fc, wrote |-> writes,
                             raised |-> Dumps(last_raw_digest, digest) /\ out # "ok"]
    /\ UNCHANGED <<last_fail_digest, core, zam, pfm>>

\* Forecast.save_failed_forecast(fc, basename): the same with its own digest
SaveFailedForecast ==
    /\ nDumps < MaxDumps
    /\ nDumps' = nDumps + 1
    /\ \E fc \in Payloads, out \in WriteOutcomes :
          LET digest == md5(fc)
              writes == Dumps(last_fail_digest, digest) /\ out = "ok"
          IN /\ files' = IF writes
                         THEN Append(files, [basename |-> "fail", fc |-> fc])
                         ELSE files
             /\ last_fail_digest' = IF Dumps(last_fail_digest, digest)
                                    THEN DigestKept(last_fail_digest, digest, out)
                                    ELSE last_fail_digest
             /\ lastDump' = [basename |-> "fail", fc |-> fc, wrote |-> writes,
                             raised |-> Dumps(last_fail_digest, digest) /\ out # "ok"]
    /\ UNCHANGED <<last_raw_digest, core, zam, pfm>>

NextDiag == SaveRawForecast \/ SaveFailedForecast

\* one configuration of the scheduler, which takes no step here
OneConfig ==
    /\ lid = <<>> /\ foid = <<>> /\ single_thread /\ max_age = <<>>
    /\ ~vacuum /\ db_max_tries = 0
InitDiag == Init /\ OneConfig

SpecDiag == InitDiag /\ [][NextDiag]_vars

(* ----------------------------- Zambretti ------------------------------- *)
\* ZambrettiForecast.get_forecast(event): None when the slot is the one of
\* the last forecast, when the archive cannot be read, or when there is no
\* code; else the slot is kept and one record returned.  <<>> is None.
ZambrettiGetForecast ==
    /\ \E now \in Nows, archive \in ArchiveStates :
          LET t == Slot(now)
              made == last_event_ts # t /\ archive = "code"
          IN /\ last_event_ts' = IF made THEN t ELSE last_event_ts
             /\ lastZ' = [now |-> now, archive |-> archive, before |-> last_event_ts,
                          result |-> IF made THEN << <<ZRecord(now, t)>> >> ELSE <<>>]
    /\ UNCHANGED <<core, diag, pfm>>

NextZambretti == ZambrettiGetForecast

InitZambretti == Init /\ OneConfig

SpecZambretti == InitZambretti /\ [][NextZambretti]_vars

(* ------------------- a Zambretti source in the pipeline ---------------- *)
\* the record times of the triggers considered here
RunNows == {d * Day + t : d \in 1..MaxDay, t \in {NineOClock - 1, NineOClock + 1234}}
\* do_forecast of a ZambrettiForecast: records = self.get_forecast(event),
\* which keeps the slot in self.last_event_ts when it makes a record
ZambrettiRunGet(r) ==
    /\ pc[r] = "get"
    /\ \E now \in RunNows, archive \in ArchiveStates :
          LET t == Slot(now)
              made == last_event_ts # t /\ archive = "code"
          IN /\ last_event_ts' = IF made THEN t ELSE last_event_ts
             /\ lastZ' = [now |-> now, archive |-> archive, before |-> last_event_ts,
                          result |-> IF made THEN << <<ZRecord(now, t)>> >> ELSE <<>>]
             /\ records' = [records EXCEPT ![r] =
                               IF made THEN <<Row(method_id, now, t)>> ELSE <<>>]
             /\ pc' = [pc EXCEPT ![r] = AfterGet(IF made THEN "records" ELSE "None")]
             /\ hist' = [hist EXCEPT ![r].returned = ~made]
    /\ UNCHANGED <<config, shared, ts, exc, nRuns, lastTrig, lastExit, order>>
    /\ UNCHANGED <<diag, pfm>>

NextZambrettiRun ==
    \/ Tick
    \/ UpdateForecast
    \/ \E r \in Threads : Enter(r)
    \/ \E r \in Threads : ZambrettiRunGet(r)
    \/ \E r \in Threads : SaveForecast(r)
    \/ \E r \in Threads : Stamp(r)
    \/ \E r \in Threads : Finally(r)

\* a Zambretti source: bound at construction, no pruning here
ZambrettiConfig ==
    /\ Bound /\ single_thread /\ max_age = <<>> /\ ~vacuum
InitZambrettiRun == Init /\ ZambrettiConfig

SpecZambrettiRun == InitZambrettiRun /\ [][NextZambrettiRun]_vars

(* ---------------- NWS point forecast matrix: decoding one product ------ *)
\* NWSDownloadForecast returned a text
DownloadForecast ==
    /\ pfmStage = "idle"
    /\ \E shape \in Shapes, l \in LocIds :
          /\ pfmShape' = shape
          /\ pfmText' = TextOf(shape)
          /\ pfmLid' = l
    /\ pfmStage' = "text"
    /\ UNCHANGED <<pfmMatrix, pfmRecords, core, diag, zam>>

\* matrix = NWSParseForecast(text, lid)
ParseForecast ==
    /\ pfmStage = "text"
    /\ pfmMatrix' = NWSParseForecast(pfmText, pfmLid)
    /\ pfmStage' = IF pfmMatrix'.status \in {"matrix", "None"}
                   THEN "parsed" ELSE "raised"
    /\ UNCHANGED <<pfmText, pfmLid, pfmShape, pfmRecords, core, diag, zam>>

\* records = NWSProcessForecast(foid, lid, matrix)
ProcessForecast ==
    /\ pfmStage = "parsed"
    /\ pfmRecords' = NWSProcessForecast(pfmMatrix, IntTime(clock))
    /\ pfmStage' = "done"
    /\ UNCHANGED <<pfmText, pfmLid, pfmShape, pfmMatrix, core, diag, zam>>

NextNWS == DownloadForecast \/ ParseForecast \/ ProcessForecast

InitNWS == Init /\ OneConfig

SpecNWS == InitNWS /\ [][NextNWS]_vars

TypeOK ==
    /\ pc \in [Threads -> {"idle", "start"} \cup InBody]
    /\ nRuns \in 0..MaxRuns
    /\ clock \in 0..MaxClock

(* ------------------------------- claims -------------------------------- *)
\* steps of run r, recognised by the move of its position
Vacuums(r) == pc[r] = "vacuum" /\ pc'[r] # "vacuum"
Exits(r) == pc[r] = "finally" /\ pc'[r] = "idle"
Saves(r) == pc[r] = "save" /\ pc'[r] # "save"
Prunes(r) == pc[r] = "prune" /\ pc'[r] # "prune"
\* a trigger started a run in slot r and nothing else moved
StartedIn(r) ==
    /\ pc[r] = "idle" /\ pc'[r] = "start"
    /\ \A q \in Threads \ {r} : pc'[q] = pc[q]

\* C1: at most one execution of do_forecast for the source is in progress
\* at any time
MutualExclusion == Cardinality({r \in Threads : pc[r] \in InBody}) <= 1

\* C2: in threaded mode a trigger at time now starts a run if and only if
\* self.updating is false and now - interval > last_ts; any other trigger
\* starts nothing and leaves the flag, last_ts and the table as they were
GateLaw ==
    [][(UpdateForecast /\ ~single_thread) =>
          IF ~updating /\ clock - interval * Res > last_ts * Res
          THEN /\ nRuns' = nRuns + 1
               /\ \E r \in Threads : StartedIn(r)
               /\ UNCHANGED <<updating, last_ts, db>>
          ELSE UNCHANGED <<pc, nRuns, updating, last_ts, db>>]_vars
\* a trigger has just been accepted: the thread is started, the flag not yet set
GateWitness ==
    /\ ~single_thread /\ lastTrig = "started" /\ ~updating
    /\ clock - interval * Res > last_ts * Res
    /\ \E r \in Threads : pc[r] = "start"

ReleaseOnExit == [][\A r \in Threads : Exits(r) => updating' = FALSE]_vars
\* a run in a worker thread ended by an exception and the controller is idle
ReleaseWitness ==
    ~single_thread /\ lastExit.caught = "Exception" /\ Idle /\ ~updating

\* C5: a run whose get_forecast returned None goes straight to the end of
\* do_forecast: it makes no insert, no prune and no vacuum, none of its steps
\* changes the table or last_ts, and when no other run was in flight last_ts
\* after the run is what it was when the run began
NothingToDo ==
    [][\A r \in Threads :
          /\ (pc[r] = "get" /\ hist'[r].returned) =>
                pc'[r] = "finally" /\ exc'[r] = "none" /\ UNCHANGED <<db, last_ts>>
          /\ (hist[r].returned /\ pc'[r] # pc[r]) =>
                /\ Exits(r)
                /\ hist[r].attempts = <<>> /\ hist[r].stamped = <<>>
                /\ hist[r].pruned = 0
                /\ UNCHANGED <<db, last_ts>>
                /\ (single_thread \/ nRuns = 1) => last_ts' = hist[r].last_ts0]_vars
\* a run that had nothing to do has just ended
NothingToDoWitness ==
    /\ lastExit.run.returned /\ lastExit.caught = "none" /\ Idle
    /\ last_ts = lastExit.run.last_ts0

\* C6: when save_forecast runs out of tries the run goes to the end of
\* do_forecast without prune or vacuum, the table and last_ts are as they
\* were, the flag is released, and when no other run was in flight last_ts
\* is what it was when the run began
FatalSave ==
    [][\A r \in Threads :
          /\ (Saves(r) /\ exc'[r] = "SaveFailed") =>
                pc'[r] = "finally" /\ UNCHANGED <<db, last_ts>>
          /\ (Exits(r) /\ exc[r] = "SaveFailed") =>
                /\ updating' = FALSE
                /\ hist[r].stamped = <<>> /\ hist[r].pruned = 0
                /\ Len(hist[r].attempts) = db_max_tries
                /\ UNCHANGED <<db, last_ts>>
                /\ (single_thread \/ nRuns = 1) =>
                      last_ts' = hist[r].last_ts0 /\ Idle']_vars
\* a run whose save failed for good has just ended; the gate sees the old last_ts
FatalSaveWitness ==
    /\ lastExit.caught = "SaveFailed" /\ Idle /\ ~updating
    /\ Len(lastExit.run.attempts) = MaxTries
    /\ last_ts = lastExit.run.last_ts0

FailureContainment ==
    /\ lastExit.escaped = "none"
    /\ \A r \in Threads : pc[r] \in {"idle", "start"} => exc[r] = "none"
\* an inline run has just ended by an exception of the vacuum statement
FailureContainmentWitness ==
    /\ single_thread /\ vacuum /\ max_age = <<>>
    /\ lastExit.caught = "Exception" /\ lastExit.escaped = "none"
    /\ lastExit.run.attempts = <<"Exception">> /\ lastExit.run.stamped # <<>>

\* C9: save_forecast makes at most max_tries attempts, each inserting the
\* whole list; every attempt but the last failed with a DatabaseError; it
\* stops at the first success and returns normally; it raises the "save
\* failed" exception exactly when max_tries attempts all failed with a
\* DatabaseError
BoundedRetry ==
    [][\A r \in Threads : Saves(r) =>
          LET a == hist'[r].attempts
              n == Len(a)
          IN /\ n <= db_max_tries
             /\ \A i \in 1..(n - 1) : a[i] = "DatabaseError"
             /\ (\E i \in 1..n : a[i] = "ok") <=> (exc'[r] = "none")
             /\ exc'[r] = "none" =>
                   a[n] = "ok" /\ pc'[r] = "stamp" /\ db' = db \o records[r]
             /\ exc'[r] # "none" => db' = db
             /\ (exc'[r] = "SaveFailed") <=>
                   (n = db_max_tries /\ \A i \in 1..n : a[i] = "DatabaseError")]_vars
\* a save has just succeeded at its second attempt
BoundedRetryWitness ==
    \E r \in Threads :
        /\ pc[r] = "stamp" /\ hist[r].attempts = <<"DatabaseError", "ok">>
        /\ Len(db) > 1

PruneKeepsNewest ==
    [][\A r \in Threads :
          LET own == RowsOf(db, method_id)
              newest == SelectSeq(own, LAMBDA row : row.dateTime = ts[r])
          IN (/\ Prunes(r) /\ exc'[r] = "none"
              /\ own # <<>> /\ ts[r] = get_last_forecast_ts(db, method_id)
              /\ Len(newest) = Len(EventOffsets)) =>
                 /\ RowsOf(db', method_id) = newest
                 /\ Len(RowsOf(db', method_id)) = Len(EventOffsets)
                 /\ \A i \in 1..Len(db') :
                       db'[i].method = method_id => db'[i].dateTime = ts[r]
                 /\ RowsOf(db', other_id) = RowsOf(db, other_id)
                 /\ Len(db') = Len(db) - (Len(own) - Len(newest))]_vars
\* a prune called with the newest dateTime has just removed an older cohort
\* and kept the newest one
PruneKeepsNewestWitness ==
    \E r \in Threads :
        /\ pc[r] \in {"vacuum", "finally"} /\ exc[r] = "none"
        /\ hist[r].pruned = Len(EventOffsets)
        /\ ts[r] = get_last_forecast_ts(db, method_id)
        /\ Len(RowsOf(db, method_id)) = Len(EventOffsets)
        /\ RowsOf(db, other_id) # <<>>

RECURSIVE LastWritten(_, _)
LastWritten(fs, basename) ==
    IF fs = <<>> THEN "None"
    ELSE IF fs[Len(fs)].basename = basename THEN md5(fs[Len(fs)].fc)
    ELSE LastWritten(SubSeq(fs, 1, Len(fs) - 1), basename)

\* C13: a dump call goes on to write a file if and only if the digest of its
\* payload differs from the digest of the last payload written for the same
\* kind, and the write, unless it fails, adds exactly one file; a call with
\* the digest last written writes nothing, however often it is repeated; the
\* raw and the failed dumps are gated independently of each other
DigestGate ==
    [][(SaveRawForecast \/ SaveFailedForecast) =>
          LET c == lastDump'
              last == LastWritten(files, c.basename)
          IN /\ (c.wrote \/ c.raised) <=> (md5(c.fc) # last)
             /\ c.wrote => files' = Append(files, [basename |-> c.basename, fc |-> c.fc])
             /\ ~c.wrote => files' = files
             /\ LastWritten(files', "raw") = last_raw_digest'
             /\ LastWritten(files', "fail") = last_fail_digest'
             /\ c.basename = "raw" => last_fail_digest' = last_fail_digest
             /\ c.basename = "fail" => last_raw_digest' = last_raw_digest]_vars
\* the same payload was dumped raw, dumped raw again, and then dumped as
\* failed: two files, one of each kind
DigestGateWitness ==
    /\ nDumps = 3 /\ Len(files) = 2
    /\ files[1].basename = "raw" /\ files[2].basename = "fail"
    /\ files[1].fc = files[2].fc
    /\ lastDump.wrote /\ lastDump.basename = "fail"

\* C14: a source constructed with a required identifier that is None or an
\* 'INSERT_' placeholder is never bound: whatever time passes, no trigger
\* reaches it, no run starts and no row of its method is inserted
DisabledSource ==
    (\E id \in {lid, foid} : id = <<>> \/ (id # <<>> /\ Head(id[1]) = "INSERT_")) =>
        /\ nRuns = 0 /\ lastTrig = "none" /\ Idle /\ ~updating
        /\ RowsOf(db, method_id) = <<>>
        /\ last_ts = 0
\* a source whose lid is a placeholder, idle although its interval has passed
DisabledSourceWitness ==
    /\ lid = << <<"INSERT_", "ID_HERE">> >> /\ foid = << <<"MDZ014">> >>
    /\ clock = MaxClock /\ Due(clock, interval, last_ts)
    /\ nRuns = 0 /\ Idle

\* a is b with some of its elements left out
RECURSIVE IsSubSeq(_, _)
IsSubSeq(a, b) ==
    IF a = <<>> THEN TRUE
    ELSE IF b = <<>> THEN FALSE
    ELSE IF Head(a) = Head(b) THEN IsSubSeq(Tail(a), Tail(b))
    ELSE IsSubSeq(a, Tail(b))

\* C15: every step leaves the stored rows as they are, or is a save that
\* appends the records of one run, all of the method and of one dateTime,
\* after the rows already stored, or is a prune that takes rows out; no
\* stored row is ever altered
RowsImmutable ==
    [][\/ db' = db
       \/ \E r \in Threads :
             /\ Saves(r) /\ exc'[r] = "none"
             /\ db' = db \o records[r]
             /\ \A i \in 1..Len(records[r]) :
                   /\ records[r][i].method = method_id
                   /\ records[r][i].dateTime = records[r][1].dateTime
       \/ \E r \in Threads :
             /\ Prunes(r) /\ exc'[r] = "none"
             /\ IsSubSeq(db', db) /\ Len(db') < Len(db)]_vars
\* a cohort has outlived the save of a later cohort and the prune after it
RowsImmutableWitness ==
    \E r \in Threads :
        LET own == RowsOf(db, method_id)
        IN /\ pc[r] \in {"vacuum", "finally"} /\ exc[r] = "none"
           /\ max_age # <<>> /\ hist[r].stamped # <<>>
           /\ Len(own) = 2 * Len(EventOffsets)
           /\ own[1].dateTime < own[Len(own)].dateTime
           /\ own[1].event_ts = own[1].dateTime + EventOffsets[1]

\* C16: the cohorts of the source are inserted in the order in which their
\* triggers were accepted, and their dateTime does not decrease in that order
CohortOrdering ==
    \A i, j \in 1..Len(order) :
        i < j => /\ order[i].run < order[j].run
                 /\ order[i].dateTime <= order[j].dateTime

\* the 09:00 at or before time t, and after t - Day
IsSlotOf(t, now) == t % Day = NineOClock /\ t <= now /\ now < t + Day

UnknownLocation == \A i \in 1..Len(pfmText) : pfmText[i].head # pfmLid
Decoded == pfmStage \in {"parsed", "raised", "done"}

\* C18: decoding a product in which no block belongs to the requested
\* location id raises nothing, returns no matrix (None) and zero records,
\* and get_forecast then gives None, on which a run goes straight to its
\* finally clause and inserts nothing
UnknownLocationSoft ==
    (Decoded /\ UnknownLocation) =>
        /\ pfmStage # "raised"
        /\ pfmMatrix = NoMatrix("None")
        /\ pfmRecords = <<>>
        /\ NWSGetForecast(pfmText, pfmLid) = "None"
        /\ AfterGet(NWSGetForecast(pfmText, pfmLid)) = "finally"
\* a product with well-formed blocks, one of them dated and with both HOUR
\* rows, has been decoded for an id none of its blocks has
UnknownLocationWitness ==
    /\ pfmStage = "done" /\ UnknownLocation /\ pfmLid = "FOOBAR"
    /\ pfmShape.header = "dated" /\ pfmShape.h3 # <<>> /\ pfmShape.h6 # <<>>
    /\ pfmRecords = <<>>

\* C19: the decoder never raises: for every product and location id
\* NWSParseForecast followed by NWSProcessForecast returns a record list
DecoderNeverRaises == pfmStage # "raised"

\* the hours written in the 3-hourly HOUR row of the located block
RowHours == [k \in 1..Len(pfmShape.h3[1]) |-> Decimal(pfmShape.h3[1][k])]
Decreases(h, k) == Cardinality({j \in 2..k : h[j] < h[j - 1]})
\* C20: for the 3-hourly HOUR row with hours h, the decoded event time of
\* column k is startOfDay(issued) + 24h * (number of decreases of the hour
\* up to column k) + h[k] * 3600
DayRollover3 ==
    (Decoded /\ pfmMatrix.status = "matrix") =>
        /\ Len(pfmMatrix.ts) >= Len(RowHours)
        /\ \A k \in 1..Len(RowHours) :
              /\ pfmMatrix.hour[k] = RowHours[k]
              /\ pfmMatrix.ts[k] = startOfDay(pfmShape.issued)
                                   + 24 * 3600 * Decreases(RowHours, k)
                                   + RowHours[k] * 3600
\* a row whose hour decreases and then repeats has been decoded
DayRollover3Witness ==
    /\ pfmStage = "parsed" /\ pfmMatrix.status = "matrix"
    /\ \E k \in 2..(Len(RowHours) - 1) :
          RowHours[k] < RowHours[k - 1] /\ RowHours[k + 1] = RowHours[k]
    /\ pfmMatrix.ts[2] = startOfDay(pfmShape.issued) + Day + RowHours[2] * 3600

\* the hours written in the 6-hourly HOUR row of the located block, and
\* the hours of the two rows in the order of the timeline
Row6Hours == [k \in 1..Len(pfmShape.h6[1]) |-> Decimal(pfmShape.h6[1][k])]
AllHours == RowHours \o Row6Hours
\* C21: every hour token of the 6-hourly HOUR row, the one flushed at the
\* end of the line included, follows the carry rule of the 3-hour row: its
\* event time is startOfDay(issued) + 24h * (number of decreases of the hour
\* up to it, counted from the first 3-hour column) + hour * 3600
DayRollover6 ==
    (Decoded /\ pfmMatrix.status = "matrix") =>
        /\ Len(pfmMatrix.ts) = Len(AllHours)
        /\ \A k \in 1..Len(AllHours) :
              pfmMatrix.ts[k] = startOfDay(pfmShape.issued)
                                + 24 * 3600 * Decreases(AllHours, k)
                                + AllHours[k] * 3600

\* C22: for every decodable block the event times of the merged timeline
\* (3-hour slots, then 6-hour slots) never decrease, and every field array,
\* tempMin and tempMax included, has as many entries as the timeline
TimelineChronological ==
    (Decoded /\ pfmMatrix.status = "matrix") =>
        /\ \A k \in 2..Len(pfmMatrix.ts) : pfmMatrix.ts[k - 1] <= pfmMatrix.ts[k]
        /\ {"tempMin", "tempMax"} \subseteq DOMAIN pfmMatrix.data
        /\ \A label \in DOMAIN pfmMatrix.data :
              Len(pfmMatrix.data[label]) = Len(pfmMatrix.ts)

\* a data row whose label the decoder recognises: the column before its
\* first hour holds a blank or a minus sign
Recognised(d) == d # <<>> /\ d[1].fields[1][1] \in {" ", "-"}
IsMinMax(d) == Recognised(d) /\ d[1].label \in {<<"MIN/MAX">>, <<"MAX/MIN">>}
\* the MIN/MAX or MAX/MIN row under timeline index i, the value it has
\* there (<<>>: none), and the rank of that value among the values of the row
Count3 == Len(pfmShape.h3[1])
RowUnder(i) == IF i <= Count3 THEN pfmShape.d3 ELSE pfmShape.d6
PlaceIn(i) == IF i <= Count3 THEN i ELSE i - Count3
ValueOf(d, k) ==
    IF IsMinMax(d) /\ k \in 1..Len(d[1].fields) THEN strip(d[1].fields[k]) ELSE <<>>
RankOf(d, k) == Cardinality({j \in 1..k : ValueOf(d, j) # <<>>})
GoesToMin(d, k) ==
    \/ d[1].label = <<"MIN/MAX">> /\ RankOf(d, k) % 2 = 1
    \/ d[1].label = <<"MAX/MIN">> /\ RankOf(d, k) % 2 = 0
\* C23: the k-th value of a MIN/MAX row, in timeline order and not counting
\* empty slots, goes to tempMin when k is odd and to tempMax when k is even,
\* and the other way round for a MAX/MIN row; it lands at its own timeline
\* index in exactly one of the two series, and every other entry of both
\* series is null
MinMaxAlternation ==
    (Decoded /\ pfmMatrix.status = "matrix") =>
        \A i \in 1..Len(pfmMatrix.ts) :
            LET d == RowUnder(i)
                k == PlaceIn(i)
                v == ValueOf(d, k)
            IN /\ pfmMatrix.data["tempMin"][i] =
                      IF v # <<>> /\ GoesToMin(d, k) THEN v ELSE <<>>
               /\ pfmMatrix.data["tempMax"][i] =
                      IF v # <<>> /\ ~GoesToMin(d, k) THEN v ELSE <<>>
\* a MIN/MAX row with a value, an empty slot and a second value has been
\* decoded together with a MAX/MIN row of the 6-hour section
MinMaxWitness ==
    /\ pfmStage = "parsed" /\ pfmMatrix.status = "matrix"
    /\ IsMinMax(pfmShape.d3) /\ pfmShape.d3[1].label = <<"MIN/MAX">>
    /\ Len(pfmShape.d3[1].fields) >= 3
    /\ ValueOf(pfmShape.d3, 1) # <<>> /\ ValueOf(pfmShape.d3, 2) = <<>>
    /\ ValueOf(pfmShape.d3, 3) # <<>>
    /\ IsMinMax(pfmShape.d6) /\ pfmShape.d6[1].label = <<"MAX/MIN">>
    /\ pfmMatrix.data["tempMin"][1] # <<>> /\ pfmMatrix.data["tempMax"][3] # <<>>
    /\ pfmMatrix.data["tempMax"][Count3 + 1] # <<>>

\* C24: for a row of the default width (here RH, in the 3-hour section) the
\* value of each timeline slot is the stripped 3-character field ending at
\* the slot's hour column, sign column included, and null where the field
\* is blank or the row has ended
FixedWidthFields ==
    (Decoded /\ pfmMatrix.status = "matrix" /\ pfmShape.d3 # <<>>
       /\ pfmShape.d3[1].label = <<"RH">>) =>
        /\ "humidity" \in DOMAIN pfmMatrix.data
        /\ \A i \in 1..Len(pfmMatrix.ts) :
              pfmMatrix.data["humidity"][i] =
                  IF i \in 1..Len(pfmShape.d3[1].fields)
                  THEN strip(pfmShape.d3[1].fields[i]) ELSE <<>>

\* C25: in single-thread mode a trigger executes the run body inline only
\* if now - interval > last_ts, as in threaded mode; a trigger before that
\* starts nothing
SingleThreadGate ==
    [][(UpdateForecast /\ single_thread) =>
          IF clock - interval * Res > last_ts * Res
          THEN \E r \in Threads : StartedIn(r)
          ELSE UNCHANGED <<pc, nRuns, updating, last_ts, db>>]_vars

\* C26: a run whose get_forecast returned an empty record list leaves
\* last_ts as it was
ZeroRecordsNoSuccess ==
    [][\A r \in Threads :
          (hist[r].empty /\ pc[r] \in InBody /\ pc'[r] # pc[r]) =>
              last_ts' = last_ts]_vars

\* the 09:00 slot t has a record made (it is the slot kept) that is not
\* stored and that no run holds: its save failed
SaveFailedFor(t) ==
    /\ last_event_ts = t
    /\ \A i \in 1..Len(db) : ~(db[i].method = method_id /\ db[i].event_ts = t)
    /\ \A r \in Threads : records[r] = <<>>
\* C27: when the save of the record made for a 09:00 slot has failed, the
\* get_forecast of a later run whose record time maps to the same slot, and
\* for which the archive gives a code, makes the record for that slot again
ZambrettiRetried ==
    [][\A r \in Threads :
          (/\ pc[r] = "get" /\ pc'[r] # "get"
           /\ lastZ'.archive = "code"
           /\ SaveFailedFor(Slot(lastZ'.now))) =>
              /\ records'[r] # <<>>
              /\ records'[r][1].event_ts = Slot(lastZ'.now)]_vars

DigestOf(basename) == IF basename = "raw" THEN last_raw_digest ELSE last_fail_digest
RestartThrottle ==
    [][(UpdateForecast /\ nRuns = 0) =>
          LET own == RowsOf(db, method_id)
          IN /\ own = <<>> => last_ts = 0
             /\ own # <<>> =>
                   /\ \E i \in 1..Len(own) : last_ts = own[i].dateTime
                   /\ \A i \in 1..Len(own) : last_ts >= own[i].dateTime
                   /\ clock < (last_ts + interval) * Res =>
                         UNCHANGED <<pc, nRuns>>
             /\ (own = <<>> /\ clock > interval * Res) =>
                   nRuns' = nRuns + 1]_vars
====
